---- MODULE Spec2Model ----
(***************************************************************************)
(* VectorDeque<DataType> (src/DataStructures/VectorDeque/VectorDeque.hpp): *)
(* a growable circular buffer.  The model keeps the four fields of the     *)
(* class, the backing array slot by slot, and replays every public         *)
(* mutator as one action computed the way the C++ computes it.             *)
(***************************************************************************)
EXTENDS Integers, Sequences, FiniteSets, TLC

\* ------------------------------------------------------------------ bounds
\* Largest backing array on which calls are made.
MaxCap == 5
\* Largest capacity handed to the constructor VectorDeque(capacity).
MaxInitCap == 5
\* Longest array handed to addAll(elements, length).
MaxAddAll == 2
\* Largest backing array on which the calls of SpecQueue and SpecAccess are made.
MaxWatchCap == 4
\* Largest backing array on which calls are made when there are two objects.
MaxPairCap == 2
\* Largest backing array on which calls are made while an iterator is held.
MaxIterCap == 3
\* Farthest an iterator is moved or offset in one step, and farthest it is
\* taken below position 0 or beyond position size().
MaxOffset == 2
\* Most skip(1)-then-add(x) rounds of a sliding window.
MaxSlides == 4

\* The elements callers store.  The container only copies elements and never
\* inspects them, so two values are enough to tell a lost, duplicated or
\* misplaced element from the right one.
Values == {1, 2}

\* An indeterminate value: what `new DataType[n]` leaves in a slot nobody has
\* written, and what a read past the end of the block yields.
Junk == 0

Slot == Values \cup {Junk}

Min(a, b) == IF a < b THEN a ELSE b

\* ------------------------------------------------------------------- state
VARIABLES
    _capacity,   \* length of the backing array
    _data,       \* the backing array, a function 0.._capacity-1 -> Slot
    _position,   \* physical slot of the first element
    _size,       \* number of live elements
    that,        \* a second VectorDeque, the `that` of ==, != and the copies
    shared,      \* TRUE when this->_data and that._data are the same block
    iterator,    \* an iterator over this object that the caller holds
    pre,         \* the buffer as it was when the last call started
    preThat,     \* the second buffer as it was when the last call started
    call         \* the last call: its name, arguments, error and result

vars == <<_capacity, _data, _position, _size, that, shared, iterator, pre, preThat, call>>

\* The object as one record; every method below is an operator on such records.
This == [capacity |-> _capacity, data |-> _data, position |-> _position, size |-> _size]

\* ------------------------------------------------------- raw array accesses
\* _data[i] read: a slot outside the block yields an indeterminate value.
Read(data, i) == IF i \in DOMAIN data THEN data[i] ELSE Junk

\* _data[i] = v.
Write(data, i, v) == IF i \in DOMAIN data THEN [data EXCEPT ![i] = v] ELSE data

\* new DataType[n]
NewArray(n) == [i \in 0..(n - 1) |-> Junk]

\* memcpy(target + d, source + s, n) between two different blocks.
RECURSIVE Memcpy(_, _, _, _, _)
Memcpy(target, d, source, s, n) ==
    IF n <= 0 THEN target
    ELSE Memcpy(Write(target, d, Read(source, s)), d + 1, source, s + 1, n - 1)

\* memcpy(_data + d, _data + s, n) inside one block, copying upwards.
RECURSIVE MemcpyUp(_, _, _, _)
MemcpyUp(data, d, s, n) ==
    IF n <= 0 THEN data
    ELSE MemcpyUp(Write(data, d, Read(data, s)), d + 1, s + 1, n - 1)

\* memcpy(_data + d, _data + s, n) inside one block, copying downwards.
RECURSIVE MemcpyDown(_, _, _, _)
MemcpyDown(data, d, s, n) ==
    IF n <= 0 THEN data
    ELSE MemcpyDown(Write(data, d + n - 1, Read(data, s + n - 1)), d, s, n - 1)

\* memcpy on ranges of the same block.  When the ranges overlap the call is
\* undefined; `backward` chooses which of the two copy orders the library took.
MemcpyWithin(data, d, s, n, backward) ==
    IF backward THEN MemcpyDown(data, d, s, n) ELSE MemcpyUp(data, d, s, n)

\* ------------------------------------------------------- private helpers
_checkIndex(b, index) == IF index >= b.size THEN "length_error" ELSE "none"

\* _checkSize without the test for required == 0: required - 1 wraps around to
\* the largest size_t, which no count exceeds.
_checkSize_checksZero(b, required) ==
    IF required = 0 THEN "length_error" ELSE _checkIndex(b, required - 1)

_checkSize(b, required) ==
    IF required > 0 THEN _checkIndex(b, required - 1) ELSE "none"

_checkRange(b, from, until) ==
    IF _checkSize(b, until) # "none" THEN _checkSize(b, until)
    ELSE IF from > until THEN "invalid_argument"
    ELSE "none"

\* _internalIndex with the boundary test off by one (<= for <).
_internalIndex_offByOne(b, offset) ==
    IF b.position + offset <= b.capacity THEN b.position + offset
    ELSE b.position + offset - b.capacity

_internalIndex(b, offset) ==
    IF b.position + offset < b.capacity THEN b.position + offset
    ELSE b.position + offset - b.capacity

\* _internalNegativeIndexFrom that stops at slot 0 instead of wrapping to the end.
_internalNegativeIndexFrom_noWrap(b, from, offset) ==
    LET internal == _internalIndex(b, from)
    IN  IF internal >= offset THEN internal - offset ELSE 0

_internalNegativeIndexFrom(b, from, offset) ==
    LET internal == _internalIndex(b, from)
    IN  IF internal >= offset THEN internal - offset
        ELSE b.capacity - (offset - internal)

_numBeforeWrap(b, start, length) == Min(b.capacity - start, length)

\* _writePosition without the wrap-around.
_writePosition_noWrap(b) == b.position + b.size

_writePosition(b) == _internalIndex(b, b.size)

\* operator [] once _checkIndex(index) has passed.
at(b, index) == Read(b.data, _internalIndex(b, index))

\* The live elements in logical order, as a sequence.
Contents(b) == [i \in 1..b.size |-> at(b, i - 1)]

\* sliceToArray whose second memcpy reads on past the end of the block
\* instead of starting again at slot 0.
sliceToArray_noWrap(b, target, off, from, until) ==
    LET length == until - from
        start == _internalIndex(b, from)
        numBeforeWrap == _numBeforeWrap(b, start, length)
        numAfterWrap == length - numBeforeWrap
    IN  Memcpy(Memcpy(target, off, b.data, start, numBeforeWrap),
               off + numBeforeWrap, b.data, start + numBeforeWrap, numAfterWrap)

\* sliceToArray(target + off, from, until) once _checkRange has passed.
sliceToArray(b, target, off, from, until) ==
    LET length == until - from
        start == _internalIndex(b, from)
        numBeforeWrap == _numBeforeWrap(b, start, length)
        numAfterWrap == length - numBeforeWrap
    IN  Memcpy(Memcpy(target, off, b.data, start, numBeforeWrap),
               off + numBeforeWrap, b.data, 0, numAfterWrap)

copyToArray(b, target) == sliceToArray(b, target, 0, 0, b.size)

\* _ensureCapacity without `_position = 0`.
_ensureCapacity_keepsPosition(b, required) ==
    IF b.capacity < required
    THEN LET newCapacity == required * 2 + 1
             newData == copyToArray(b, NewArray(newCapacity))
         IN  [capacity |-> newCapacity, data |-> newData, position |-> b.position,
              size |-> b.size]
    ELSE b

_ensureCapacity(b, required) ==
    IF b.capacity < required
    THEN LET newCapacity == required * 2 + 1
             newData == copyToArray(b, NewArray(newCapacity))
         IN  [capacity |-> newCapacity, data |-> newData, position |-> 0, size |-> b.size]
    ELSE b

\* _ensureCanFit asking for room for the elements already held only.
_ensureCanFit_forgetsAmount(b, amount) == _ensureCapacity(b, b.size + 1)

_ensureCanFit(b, amount) == _ensureCapacity(b, b.size + amount)

\* ------------------------------------------------- private shift helpers
\* The caller's array `elements` as a block addressed from 0.
ArrayOf(elements) == [i \in 0..(Len(elements) - 1) |-> elements[i + 1]]

\* _addAll whose second memcpy starts again at the array's first element.
_addAll_restartsSource(b, elements, start, length) ==
    LET numBeforeWrap == Min(b.capacity - start, length)
        numAfterWrap == length - numBeforeWrap
    IN  Memcpy(Memcpy(b.data, start, elements, 0, numBeforeWrap),
               0, elements, 0, numAfterWrap)

_addAll(b, elements, start, length) ==
    LET numBeforeWrap == Min(b.capacity - start, length)
        numAfterWrap == length - numBeforeWrap
    IN  Memcpy(Memcpy(b.data, start, elements, 0, numBeforeWrap),
               0, elements, numBeforeWrap, numAfterWrap)

\* _insertAndResize copying the suffix to `before` instead of `before + 1`.
_insertAndResize_suffixOffByOne(b, element, before) ==
    LET newCapacity == 2 * b.capacity + 1
        head == sliceToArray(b, NewArray(newCapacity), 0, 0, before)
        placed == Write(head, before, element)
        newData == IF before < b.size
                   THEN sliceToArray(b, placed, before, before, b.size)
                   ELSE placed
    IN  [capacity |-> newCapacity, data |-> newData, position |-> 0, size |-> b.size + 1]

_insertAndResize(b, element, before) ==
    LET newCapacity == 2 * b.capacity + 1
        head == sliceToArray(b, NewArray(newCapacity), 0, 0, before)
        placed == Write(head, before, element)
        newData == IF before < b.size
                   THEN sliceToArray(b, placed, before + 1, before, b.size)
                   ELSE placed
    IN  [capacity |-> newCapacity, data |-> newData, position |-> 0, size |-> b.size + 1]

\* backward: the copy order the overlapping memcpy calls happen to use.
_shiftDown(b, from, until, backward) ==
    LET length == until - from
        start == _internalNegativeIndexFrom(b, from, 1)
        numBeforeWrap == _numBeforeWrap(b, start, length)
        numAfterWrap == length - numBeforeWrap
        first == MemcpyWithin(b.data, start, start + 1, numBeforeWrap, backward)
        second == IF numAfterWrap # 0
                  THEN MemcpyWithin(Write(first, b.capacity - 1, Read(first, 0)),
                                    0, 1, numAfterWrap - 1, backward)
                  ELSE first
        newPosition == IF from = 0
                       THEN IF b.position = 0 THEN b.capacity - 1 ELSE b.position - 1
                       ELSE b.position
    IN  [b EXCEPT !.data = second, !.position = newPosition]

\* The loop of _shiftUp from iteration i on.
RECURSIVE ShiftUpLoop(_, _, _, _, _)
ShiftUpLoop(b, data, from, until, i) ==
    IF i >= until - from THEN data
    ELSE ShiftUpLoop(b,
                     Write(data, _internalNegativeIndexFrom(b, until, i),
                           Read(data, _internalNegativeIndexFrom(b, until, i + 1))),
                     from, until, i + 1)

\* _shiftUp whose loop stops one element early.
_shiftUp_stopsEarly(b, from, until) ==
    LET newData == ShiftUpLoop(b, b.data, from + 1, until, 0)
        newPosition == IF from = 0
                       THEN IF b.position = b.capacity - 1 THEN 0 ELSE b.position + 1
                       ELSE b.position
    IN  [b EXCEPT !.data = newData, !.position = newPosition]

_shiftUp(b, from, until) ==
    LET newData == ShiftUpLoop(b, b.data, from, until, 0)
        newPosition == IF from = 0
                       THEN IF b.position = b.capacity - 1 THEN 0 ELSE b.position + 1
                       ELSE b.position
    IN  [b EXCEPT !.data = newData, !.position = newPosition]

\* ------------------------------------------------------- public mutators
\* Every mutator yields [buf, err, result]: the object afterwards, the exception
\* thrown ("none" when it returns), and the value returned.
Done(b) == [buf |-> b, err |-> "none", result |-> Junk, target |-> <<>>]
Returns(b, v) == [buf |-> b, err |-> "none", result |-> v, target |-> <<>>]
Throws(b, e) == [buf |-> b, err |-> e, result |-> Junk, target |-> <<>>]

\* add that asks for room up to the slot after the last element, as a buffer
\* that is not circular would.
add_growsAtArrayEnd(b, element) ==
    LET c == _ensureCapacity(b, b.position + b.size + 1)
    IN  [c EXCEPT !.data = Write(c.data, _writePosition(c), element),
                  !.size = c.size + 1]

add(b, element) ==
    LET c == _ensureCanFit(b, 1)
    IN  [c EXCEPT !.data = Write(c.data, _writePosition(c), element),
                  !.size = c.size + 1]

addAll(b, elements, length) ==
    LET c == _ensureCanFit(b, length)
    IN  [c EXCEPT !.data = _addAll(c, ArrayOf(elements), _writePosition(c), length),
                  !.size = c.size + length]

\* addFirst that decrements _position without wrapping to the end.
addFirst_noWrap(b, element) ==
    LET c == _ensureCanFit(b, 1)
        newPosition == IF c.position = 0 THEN 0 ELSE c.position - 1
    IN  [c EXCEPT !.position = newPosition,
                  !.data = Write(c.data, newPosition, element),
                  !.size = c.size + 1]

addFirst(b, element) ==
    LET c == _ensureCanFit(b, 1)
        newPosition == IF c.position = 0 THEN c.capacity - 1 ELSE c.position - 1
    IN  [c EXCEPT !.position = newPosition,
                  !.data = Write(c.data, newPosition, element),
                  !.size = c.size + 1]

\* The inside insert that shifts the back elements up whatever `before` is.
InsertInside_alwaysShiftsUp(b, element, before, backward) ==
    IF b.size = b.capacity THEN Done(_insertAndResize(b, element, before))
    ELSE LET shifted == _shiftUp(b, before, b.size)
             grown == [shifted EXCEPT !.size = shifted.size + 1]
             insertionIndex == _internalIndex(grown, before)
         IN  Done([grown EXCEPT !.data = Write(grown.data, insertionIndex, element)])

\* insert(element, before) from `if (_size == _capacity)` on: 0 < before < _size.
InsertInside(b, element, before, backward) ==
    IF b.size = b.capacity THEN Done(_insertAndResize(b, element, before))
    ELSE LET shifted == IF before <= b.size \div 2
                        THEN _shiftDown(b, 0, before, backward)
                        ELSE _shiftUp(b, before, b.size)
             grown == [shifted EXCEPT !.size = shifted.size + 1]
             insertionIndex == _internalIndex(grown, before)
         IN  Done([grown EXCEPT !.data = Write(grown.data, insertionIndex, element)])

\* insert that checks the index before it looks for `before == _size`.
insert_checksFirst(b, element, before, backward) ==
    IF before = 0 THEN Done(addFirst(b, element))
    ELSE IF _checkIndex(b, before) # "none" THEN Throws(b, _checkIndex(b, before))
    ELSE IF before = b.size THEN Done(add(b, element))
    ELSE InsertInside(b, element, before, backward)

insert(b, element, before, backward) ==
    IF before = 0 THEN Done(addFirst(b, element))
    ELSE IF before # b.size /\ _checkIndex(b, before) # "none"
         THEN Throws(b, _checkIndex(b, before))
    ELSE IF before = b.size THEN Done(add(b, element))
    ELSE InsertInside(b, element, before, backward)

removeAt(b, index, backward) ==
    IF _checkIndex(b, index) # "none" THEN Throws(b, _checkIndex(b, index))
    ELSE LET result == at(b, index)
         IN  IF index = b.size - 1
             THEN Returns([b EXCEPT !.size = b.size - 1], result)
             ELSE IF index \div 2 <= b.size
             THEN LET c == _shiftUp(b, 0, index)
                  IN  Returns([c EXCEPT !.size = c.size - 1], result)
             ELSE LET c == _shiftDown(b, index + 1, b.size, backward)
                  IN  Returns([c EXCEPT !.size = c.size - 1], result)

\* skip that advances _position without wrapping.
skip_noWrap(b, amount) ==
    IF _checkSize(b, amount) # "none" THEN Throws(b, _checkSize(b, amount))
    ELSE Done([b EXCEPT !.position = b.position + amount,
                        !.size = b.size - amount])

skip(b, amount) ==
    IF _checkSize(b, amount) # "none" THEN Throws(b, _checkSize(b, amount))
    ELSE Done([b EXCEPT !.position = _internalIndex(b, amount),
                        !.size = b.size - amount])

\* skipLast that drops what there is before it throws.
skipLast_dropsThenThrows(b, amount) ==
    IF _checkSize(b, amount) # "none"
    THEN Throws([b EXCEPT !.size = 0], _checkSize(b, amount))
    ELSE Done([b EXCEPT !.size = b.size - amount])

skipLast(b, amount) ==
    IF _checkSize(b, amount) # "none" THEN Throws(b, _checkSize(b, amount))
    ELSE Done([b EXCEPT !.size = b.size - amount])

\* clear() that drops the last element only.
clear_dropsLast(b) == [b EXCEPT !.size = IF b.size > 0 THEN b.size - 1 ELSE 0]

\* clear()
clear(b) == [b EXCEPT !.size = 0]

\* The loop of addAll(begin, end): add(*it) for every it from `it` up to `end`.
RECURSIVE AddEach(_, _, _, _)
AddEach(b, array, it, end) ==
    IF it >= end THEN b ELSE AddEach(add(b, Read(array, it)), array, it + 1, end)

\* addAll(begin, end) over the caller's array
addAllRange(b, elements, length) == AddEach(b, ArrayOf(elements), 0, length)

\* The loop of addAllFirst(begin, end): addFirst(*it) for every it.
RECURSIVE AddFirstEach(_, _, _, _)
AddFirstEach(b, array, it, end) ==
    IF it >= end THEN b
    ELSE AddFirstEach(addFirst(b, Read(array, it)), array, it + 1, end)

\* addAllFirst(elements, length), which calls addAllFirst(elements, elements + length)
addAllFirst(b, elements, length) == AddFirstEach(b, ArrayOf(elements), 0, length)

\* --------------------------------------------------------- public readers
\* size_t arithmetic wraps around.  The build's size_t is 64 bits wide; the
\* model keeps 30 of them, far more than any size or index it reaches.
SizeModulus == 2 ^ 30

SizeT(x) == x % SizeModulus

\* The argument a call takes when the caller leaves it out.
_checkSize_required == 1
skip_amount == 1
skipLast_amount == 1

\* operator [] with a bounds test that lets index == _size through.
operatorIndex_allowsEnd(b, index) ==
    IF index > b.size THEN Throws(b, "length_error")
    ELSE Returns(b, at(b, index))

\* operator [](index)
operatorIndex(b, index) ==
    IF _checkIndex(b, index) # "none" THEN Throws(b, _checkIndex(b, index))
    ELSE Returns(b, at(b, index))

fromBack(b, index) == operatorIndex(b, SizeT(b.size - index - 1))

peek(b) ==
    IF _checkSize(b, _checkSize_required) # "none"
    THEN Throws(b, _checkSize(b, _checkSize_required))
    ELSE operatorIndex(b, 0)

\* peekLast that reads one slot past the last element.
peekLast_pastTheEnd(b) ==
    IF _checkSize(b, _checkSize_required) # "none"
    THEN Throws(b, _checkSize(b, _checkSize_required))
    ELSE Returns(b, at(b, b.size))

peekLast(b) ==
    IF _checkSize(b, _checkSize_required) # "none"
    THEN Throws(b, _checkSize(b, _checkSize_required))
    ELSE operatorIndex(b, SizeT(b.size - 1))

\* A call that returned value v after the call with outcome r ran (r's error,
\* if it threw, is the outcome).
Then(r, v) == IF r.err # "none" THEN r ELSE Returns(r.buf, v)

pop(b) ==
    IF _checkSize(b, _checkSize_required) # "none"
    THEN Throws(b, _checkSize(b, _checkSize_required))
    ELSE LET popped == peek(b)
         IN  IF popped.err # "none" THEN popped
             ELSE Then(skip(b, skip_amount), popped.result)

popLast(b) ==
    IF _checkSize(b, _checkSize_required) # "none"
    THEN Throws(b, _checkSize(b, _checkSize_required))
    ELSE LET popped == peekLast(b)
         IN  IF popped.err # "none" THEN popped
             ELSE Then(skipLast(b, skipLast_amount), popped.result)

\* ------------------------------------------------------------- copy-outs
\* The first `length` slots of the caller's array, as a sequence.
TargetOf(array, length) == [i \in 1..length |-> Read(array, i - 1)]

\* A call that filled the caller's array.
Fills(b, array, length) ==
    [buf |-> b, err |-> "none", result |-> Junk, target |-> TargetOf(array, length)]

\* sliceToArray(target, from, until) into an array of until - from slots
sliceToArrayInto(b, from, until) ==
    IF _checkRange(b, from, until) # "none" THEN Throws(b, _checkRange(b, from, until))
    ELSE Fills(b, sliceToArray(b, NewArray(until - from), 0, from, until), until - from)

\* copyToArray(target) into an array of size() slots
copyToArrayInto(b) == sliceToArrayInto(b, 0, b.size)

\* The loop of reverseSliceToArray: target[i] = fromBack(i + from).
RECURSIVE ReverseSliceLoop(_, _, _, _, _)
ReverseSliceLoop(b, target, i, length, from) ==
    IF i >= length THEN Fills(b, target, length)
    ELSE LET element == fromBack(b, i + from)
         IN  IF element.err # "none"
             THEN [Fills(b, target, length) EXCEPT !.err = element.err]
             ELSE ReverseSliceLoop(b, Write(target, i, element.result), i + 1, length, from)

\* reverseSliceToArray(target, from, until) into an array of until - from slots
reverseSliceToArray(b, from, until) ==
    IF _checkRange(b, from, until) # "none" THEN Throws(b, _checkRange(b, from, until))
    ELSE ReverseSliceLoop(b, NewArray(until - from), 0, until - from, from)

\* The removal that follows a copy-out: the copy-out's error if it threw, else
\* the removal's outcome with the array the copy-out filled.
ThenRemoves(copied, removed) ==
    IF copied.err # "none" THEN copied ELSE [removed EXCEPT !.target = copied.target]

popSome(b, amount) == ThenRemoves(sliceToArrayInto(b, 0, amount), skip(b, amount))

\* popSomeLast that copies the last elements out in buffer order.
popSomeLast_forwardOrder(b, amount) ==
    ThenRemoves(sliceToArrayInto(b, SizeT(b.size - amount), b.size), skipLast(b, amount))

popSomeLast(b, amount) ==
    ThenRemoves(reverseSliceToArray(b, 0, amount), skipLast(b, amount))

\* ----------------------------------------------------- iterator overloads
_checkIterator(it) == IF it.owner # "this" THEN "invalid_argument" ELSE "none"

\* insert(element, it) that trusts the iterator to be one of its own.
insertAt_unchecked(b, element, it, backward) ==
    IF it.reverse THEN insert(b, element, SizeT(b.size - it.position), backward)
    ELSE insert(b, element, it.position, backward)

\* insert(element, ConstIterator) and insert(element, ConstReverseIterator)
insertAt(b, element, it, backward) ==
    IF _checkIterator(it) # "none" THEN Throws(b, _checkIterator(it))
    ELSE IF it.reverse THEN insert(b, element, SizeT(b.size - it.position), backward)
    ELSE insert(b, element, it.position, backward)

\* removeAt(ConstIterator) and removeAt(ConstReverseIterator).  The reverse
\* overload has no return statement: what its caller receives is indeterminate.
removeAtIterator(b, it, backward) ==
    IF _checkIterator(it) # "none" THEN Throws(b, _checkIterator(it))
    ELSE IF it.reverse
    THEN LET r == removeAt(b, SizeT(b.size - it.position), backward)
         IN  [r EXCEPT !.result = Junk]
    ELSE removeAt(b, it.position, backward)

\* ------------------------------------------------- two objects: ==, copies
\* _init(capacity)
_init(capacity) ==
    [capacity |-> capacity, data |-> NewArray(capacity), position |-> 0, size |-> 0]

\* The loop of operator ==: (*this)[i] != that[i] from i on.
RECURSIVE EqualsLoop(_, _, _)
EqualsLoop(a, b, i) ==
    IF i >= a.size THEN TRUE
    ELSE IF operatorIndex(a, i).result # operatorIndex(b, i).result THEN FALSE
    ELSE EqualsLoop(a, b, i + 1)

\* operator == that compares the elements without comparing the sizes.
operatorEquals_ignoresSize(a, b, same) ==
    IF same THEN TRUE ELSE EqualsLoop(a, b, 0)

\* a == b; `same` is the test this == &that.
operatorEquals(a, b, same) ==
    IF same THEN TRUE
    ELSE IF a.size # b.size THEN FALSE
    ELSE EqualsLoop(a, b, 0)

\* a != b
operatorNotEquals(a, b, same) == ~operatorEquals(a, b, same)

\* The copies yield the new object and whether its _data is source's block.
\* A copy constructor that copies the four fields, the pointer included.
copyConstruct_copiesPointer(source) == [buf |-> source, shares |-> TRUE]

\* VectorDeque(const VectorDeque& that)
copyConstruct(source) ==
    LET fresh == _init(source.size)
    IN  [buf |-> [fresh EXCEPT !.data = copyToArray(source, fresh.data),
                               !.size = source.size],
         shares |-> FALSE]

\* operator =(const VectorDeque& that) on object a; wasShared tells whether a
\* and source held the same block before.
copyAssign(a, source, same, wasShared) ==
    IF same THEN [buf |-> a, shares |-> wasShared]
    ELSE LET reallocates == a.capacity < source.size
             c == IF reallocates
                  THEN [a EXCEPT !.data = NewArray(source.size), !.capacity = source.size]
                  ELSE a
         IN  [buf |-> [c EXCEPT !.data = copyToArray(source, c.data),
                                !.position = 0,
                                !.size = source.size],
              shares |-> wasShared /\ ~reallocates]

\* VectorDeque(): the capacity of a default-constructed object.
DEFAULT_INITIAL_CAPACITY == 11

\* ---------------------------------------------------------------- moves
\* A null _data pointer: a block of no slots.
NULL == NewArray(0)

\* isEmpty()
isEmpty(b) == b.size = 0

\* size()
size(b) == b.size

\* The moves yield the new object and what the source is left as.
\* VectorDeque(VectorDeque&& that): memcpy of the whole object, then
\* that._data = NULL; _capacity, _position and _size of that stay.
moveConstruct(source) ==
    [buf |-> source, source |-> [source EXCEPT !.data = NULL]]

\* operator =(VectorDeque&& that) on object a: delete[] _data, then as the
\* move constructor.  The function ends without a return statement.
moveAssign(a, source) ==
    [buf |-> source, source |-> [source EXCEPT !.data = NULL]]

\* ------------------------------------------------- the reference sequence
\* The same calls on a plain sequence.
RefInsert(s, element, before) ==
    SubSeq(s, 1, before) \o <<element>> \o SubSeq(s, before + 1, Len(s))

RefRemove(s, index) == SubSeq(s, 1, index) \o SubSeq(s, index + 2, Len(s))

RefSkip(s, amount) == SubSeq(s, amount + 1, Len(s))

RefSkipLast(s, amount) == SubSeq(s, 1, Len(s) - amount)

\* ------------------------------------------------------------ transitions
\* An iterator argument: the object it was made from (_vectorDequePtr), its
\* _position, and whether it is a reverse iterator (IS_REVERSE).
Iterator(owner, position, reverse) ==
    [owner |-> owner, position |-> position, reverse |-> reverse]

NoIterator == Iterator("none", 0, FALSE)

\* A call on record: its arguments (`from` is the first index of a range,
\* `index` its other index or only one, `it` an iterator, `same` tells that
\* the VectorDeque argument is the object itself), the error it threw, the
\* element it returned (`result`), the bool it returned (`answer`) and the
\* caller's array it filled (`target`).
Call(op, element, index, elements, err, result) ==
    [op |-> op, element |-> element, from |-> 0, index |-> index,
     elements |-> elements, it |-> NoIterator, same |-> FALSE,
     err |-> err, result |-> result, answer |-> FALSE, target |-> <<>>]

\* No call is on record.
NoCall == Call("none", Junk, 0, <<>>, "none", Junk)
NoBuffer == [capacity |-> 0, data |-> NewArray(0), position |-> 0, size |-> 0]

\* Arrays a caller hands to addAll.
Arrays == UNION {[1..k -> Values] : k \in 0..MaxAddAll}

\* Install buffer b as the new state of the object.
Becomes(b) ==
    /\ _capacity' = b.capacity
    /\ _data' = b.data
    /\ _position' = b.position
    /\ _size' = b.size

\* What a call that took one object from `old` to `new` leaves of the other
\* object: nothing changes unless the two share their block; then the other
\* sees every slot written, and once the block is deleted for a larger one its
\* pointer dangles and its slots read as anything.
Through(old, new, other) ==
    IF ~shared THEN other
    ELSE IF new.capacity = old.capacity THEN [other EXCEPT !.data = new.data]
    ELSE [other EXCEPT !.data = NewArray(other.capacity)]

\* The call c runs on This with outcome r.  A run of calls is followed
\* either silently or, for its last call, on record: `observed` puts the call
\* and the buffer it started from in `call` and `pre`, and ends the run.  Calls
\* are made on buffers of capacity up to MaxCap; a buffer that grew beyond it is
\* kept as it is.
\* A call can be made: the run has not ended and the array is not beyond MaxCap.
Running == call.op = "none" /\ _capacity <= MaxCap

RanWith(c, r, observed) ==
    /\ Running
    /\ \E out \in {r} :
        /\ Becomes(out.buf)
        /\ that' = Through(This, out.buf, that)
        /\ shared' = (shared /\ out.buf.capacity = _capacity)
        /\ iterator' = iterator
        /\ pre' = IF observed THEN This ELSE NoBuffer
        /\ preThat' = IF observed THEN that ELSE NoBuffer
        /\ call' = IF observed
                   THEN [c EXCEPT !.err = out.err, !.result = out.result,
                                  !.target = out.target]
                   ELSE NoCall

Ran(op, element, index, elements, r, observed) ==
    RanWith(Call(op, element, index, elements, "none", Junk), r, observed)

Init ==
    /\ _capacity \in 0..MaxInitCap
    /\ _data = NewArray(_capacity)
    /\ _position = 0
    /\ _size = 0
    /\ that = NoBuffer
    /\ shared = FALSE
    /\ iterator = NoIterator
    /\ pre = NoBuffer
    /\ preThat = NoBuffer
    /\ call = NoCall

Add ==
    /\ Running
    /\ \E element \in Values, observed \in BOOLEAN :
        Ran("add", element, 0, <<>>, Done(add(This, element)), observed)

AddAll ==
    /\ Running
    /\ \E elements \in Arrays, observed \in BOOLEAN :
        Ran("addAll", Junk, Len(elements), elements,
            Done(addAll(This, elements, Len(elements))), observed)

AddFirst ==
    /\ Running
    /\ \E element \in Values, observed \in BOOLEAN :
        Ran("addFirst", element, 0, <<>>, Done(addFirst(This, element)), observed)

Insert ==
    /\ Running
    /\ \E element \in Values, before \in 0..(_size + 1), backward \in BOOLEAN,
       observed \in BOOLEAN :
        Ran("insert", element, before, <<>>,
            insert(This, element, before, backward), observed)

RemoveAt ==
    /\ Running
    /\ \E index \in 0.._size, backward \in BOOLEAN, observed \in BOOLEAN :
        Ran("removeAt", Junk, index, <<>>, removeAt(This, index, backward), observed)

Skip ==
    /\ Running
    /\ \E amount \in 0..(_size + 1), observed \in BOOLEAN :
        Ran("skip", Junk, amount, <<>>, skip(This, amount), observed)

SkipLast ==
    /\ Running
    /\ \E amount \in 0..(_size + 1), observed \in BOOLEAN :
        Ran("skipLast", Junk, amount, <<>>, skipLast(This, amount), observed)

\* skip() and skipLast() with the amount left out.
SkipOne ==
    /\ Running
    /\ \E observed \in BOOLEAN :
        Ran("skip()", Junk, 0, <<>>, skip(This, skip_amount), observed)

SkipLastOne ==
    /\ Running
    /\ \E observed \in BOOLEAN :
        Ran("skipLast()", Junk, 0, <<>>, skipLast(This, skipLast_amount), observed)

Next ==
    \/ Add
    \/ AddAll
    \/ AddFirst
    \/ Insert
    \/ RemoveAt
    \/ Skip
    \/ SkipLast
    \/ SkipOne
    \/ SkipLastOne

Spec == Init /\ [][Next]_vars

\* ------------------------------------------- the deque and bulk operations
AddAllFirst ==
    /\ Running
    /\ \E elements \in Arrays, observed \in BOOLEAN :
        Ran("addAllFirst", Junk, Len(elements), elements,
            Done(addAllFirst(This, elements, Len(elements))), observed)

Clear ==
    /\ Running
    /\ \E observed \in BOOLEAN : Ran("clear", Junk, 0, <<>>, Done(clear(This)), observed)

Peek ==
    /\ Running
    /\ \E observed \in BOOLEAN : Ran("peek", Junk, 0, <<>>, peek(This), observed)

PeekLast ==
    /\ Running
    /\ \E observed \in BOOLEAN : Ran("peekLast", Junk, 0, <<>>, peekLast(This), observed)

Pop ==
    /\ Running
    /\ \E observed \in BOOLEAN : Ran("pop", Junk, 0, <<>>, pop(This), observed)

PopLast ==
    /\ Running
    /\ \E observed \in BOOLEAN : Ran("popLast", Junk, 0, <<>>, popLast(This), observed)

PopSome ==
    /\ Running
    /\ \E amount \in 0..(_size + 1), observed \in BOOLEAN :
        Ran("popSome", Junk, amount, <<>>, popSome(This, amount), observed)

PopSomeLast ==
    /\ Running
    /\ \E amount \in 0..(_size + 1), observed \in BOOLEAN :
        Ran("popSomeLast", Junk, amount, <<>>, popSomeLast(This, amount), observed)

\* A run of the calls of Next, none of them on record.
Quiet == Next /\ call' = NoCall

\* Buffers constructed with a capacity up to MaxWatchCap.
InitWatch == Init /\ _capacity <= MaxWatchCap

\* Calls on an array of up to MaxWatchCap slots.
Watched == _capacity <= MaxWatchCap

NextQueue ==
    \/ Quiet /\ Watched
    \/ AddAll /\ Watched
    \/ AddAllFirst /\ Watched
    \/ Clear /\ Watched
    \/ Peek /\ Watched
    \/ PeekLast /\ Watched
    \/ Pop /\ Watched
    \/ PopLast /\ Watched

SpecQueue == InitWatch /\ [][NextQueue]_vars

\* ----------------------------------------- readers, copy-outs and iterators
At ==
    /\ Running
    /\ \E index \in 0..(_size + 1), observed \in BOOLEAN :
        Ran("at", Junk, index, <<>>, operatorIndex(This, index), observed)

SliceToArray ==
    /\ Running
    /\ \E from \in 0..(_size + 1), until \in 0..(_size + 1), observed \in BOOLEAN :
        RanWith([Call("sliceToArray", Junk, until, <<>>, "none", Junk) EXCEPT !.from = from],
                sliceToArrayInto(This, from, until), observed)

CopyToArray ==
    /\ Running
    /\ RanWith(Call("copyToArray", Junk, 0, <<>>, "none", Junk), copyToArrayInto(This), TRUE)

ReverseSliceToArray ==
    /\ Running
    /\ \E from \in 0..(_size + 1), until \in 0..(_size + 1), observed \in BOOLEAN :
        RanWith([Call("reverseSliceToArray", Junk, until, <<>>, "none", Junk)
                     EXCEPT !.from = from],
                reverseSliceToArray(This, from, until), observed)

\* The iterators a caller may hand in: forward and reverse ones, made from this
\* object or from another one, at any position up to one past the end.
Iterators ==
    {Iterator(owner, position, reverse) :
        owner \in {"this", "other"}, position \in 0..(_size + 1), reverse \in BOOLEAN}

InsertAt ==
    /\ Running
    /\ \E element \in Values, it \in Iterators, backward \in BOOLEAN, observed \in BOOLEAN :
        RanWith([Call("insertAt", element, 0, <<>>, "none", Junk) EXCEPT !.it = it],
                insertAt(This, element, it, backward), observed)

RemoveAtIterator ==
    /\ Running
    /\ \E it \in Iterators, backward \in BOOLEAN, observed \in BOOLEAN :
        RanWith([Call("removeAtIterator", Junk, 0, <<>>, "none", Junk) EXCEPT !.it = it],
                removeAtIterator(This, it, backward), observed)

\* The calls that can throw.
Thrower ==
    \/ Insert
    \/ RemoveAt
    \/ Skip
    \/ SkipLast
    \/ Peek
    \/ PeekLast
    \/ Pop
    \/ PopLast
    \/ PopSome
    \/ PopSomeLast
    \/ SliceToArray
    \/ ReverseSliceToArray
    \/ InsertAt
    \/ RemoveAtIterator

\* A run of calls that ends with an indexed read, with a call that threw, with
\* a call handed another object's iterator or with a copy-out of a range
\* whose first index lies behind its last.
NextAccess ==
    \/ Quiet /\ Watched
    \/ At /\ Watched
    \/ CopyToArray /\ Watched
    \/ Thrower /\ Watched /\ call'.err # "none"
    \/ (InsertAt \/ RemoveAtIterator) /\ Watched /\ call'.it.owner = "other"
    \/ (SliceToArray \/ ReverseSliceToArray) /\ Watched /\ call'.from > call'.index

SpecAccess == InitWatch /\ [][NextAccess]_vars

\* ------------------------------------------------------------ two objects
\* Two objects, each constructed with a capacity up to MaxPairCap.
InitPair ==
    /\ _capacity \in 0..Min(MaxPairCap, MaxInitCap)
    /\ _data = NewArray(_capacity)
    /\ _position = 0
    /\ _size = 0
    /\ that \in {_init(capacity) : capacity \in 0..Min(MaxPairCap, MaxInitCap)}
    /\ shared = FALSE
    /\ iterator = NoIterator
    /\ pre = NoBuffer
    /\ preThat = NoBuffer
    /\ call = NoCall

\* Calls that build the layouts of this object, none of them on record.
ThisChanges ==
    /\ _capacity <= MaxPairCap
    /\ (Add \/ AddFirst \/ RemoveAt \/ Skip)
    /\ call' = NoCall

\* A call with outcome r runs on `that`, not on record.
ThatRan(r) ==
    /\ call.op = "none"
    /\ that.capacity <= MaxPairCap
    /\ that' = r.buf
    /\ Becomes(Through(that, r.buf, This))
    /\ shared' = (shared /\ r.buf.capacity = that.capacity)
    /\ iterator' = iterator
    /\ UNCHANGED <<pre, preThat, call>>

ThatAdd == \E element \in Values : ThatRan(Done(add(that, element)))

ThatAddFirst == \E element \in Values : ThatRan(Done(addFirst(that, element)))

ThatSkip == \E amount \in 0..(that.size + 1) : ThatRan(skip(that, amount))

\* A call with `that` (or, when same, the object itself) as its argument makes
\* this object newThis and leaves whether the two share their block.
PairRan(c, newThis, shares, observed) ==
    /\ call.op = "none"
    /\ Becomes(newThis)
    /\ that' = Through(This, newThis, that)
    /\ shared' = shares
    /\ iterator' = iterator
    /\ pre' = IF observed THEN This ELSE NoBuffer
    /\ preThat' = IF observed THEN that ELSE NoBuffer
    /\ call' = IF observed THEN c ELSE NoCall

\* this object is constructed as a copy of that: VectorDeque copy(that).
CopyConstruct ==
    \E observed \in BOOLEAN, copy \in {copyConstruct(that)} :
        /\ call.op = "none"
        /\ Becomes(copy.buf)
        /\ shared' = copy.shares
        /\ iterator' = iterator
        /\ that' = that
        /\ pre' = IF observed THEN This ELSE NoBuffer
        /\ preThat' = IF observed THEN that ELSE NoBuffer
        /\ call' = IF observed THEN Call("copyConstruct", Junk, 0, <<>>, "none", Junk)
                   ELSE NoCall

\* *this = that
CopyAssign ==
    \E observed \in BOOLEAN, copy \in {copyAssign(This, that, FALSE, shared)} :
        PairRan(Call("copyAssign", Junk, 0, <<>>, "none", Junk),
                copy.buf, copy.shares, observed)

\* *this = *this
SelfAssign ==
    \E copy \in {copyAssign(This, This, TRUE, shared)} :
        PairRan([Call("copyAssign", Junk, 0, <<>>, "none", Junk) EXCEPT !.same = TRUE],
                copy.buf, copy.shares, TRUE)

\* *this == that and *this == *this
Equals ==
    \E same \in BOOLEAN :
        PairRan([Call("==", Junk, 0, <<>>, "none", Junk)
                     EXCEPT !.same = same,
                            !.answer = operatorEquals(This, IF same THEN This ELSE that,
                                                      same)],
                This, shared, TRUE)

\* *this != that and *this != *this
NotEquals ==
    \E same \in BOOLEAN :
        PairRan([Call("!=", Junk, 0, <<>>, "none", Junk)
                     EXCEPT !.same = same,
                            !.answer = operatorNotEquals(This,
                                                         IF same THEN This ELSE that,
                                                         same)],
                This, shared, TRUE)

NextPair ==
    \/ ThisChanges
    \/ ThatAdd
    \/ ThatAddFirst
    \/ ThatSkip
    \/ CopyConstruct
    \/ CopyAssign
    \/ SelfAssign
    \/ Equals
    \/ NotEquals

SpecPair == InitPair /\ [][NextPair]_vars

\* ------------------------------------------------------------------ moves
\* A move from that into this object.  The source gives up its block, so the
\* two never share one afterwards; the call is on record and ends the run.
MoveRan(op, moved, err) ==
    /\ call.op = "none"
    /\ Becomes(moved.buf)
    /\ that' = moved.source
    /\ shared' = FALSE
    /\ iterator' = iterator
    /\ pre' = This
    /\ preThat' = that
    /\ call' = Call(op, Junk, 0, <<>>, err, Junk)

\* VectorDeque moved(std::move(that))
MoveConstruct == \E moved \in {moveConstruct(that)} : MoveRan("moveConstruct", moved, "none")

\* *this = std::move(that).  Flowing off the end of operator = without a
\* return is undefined: the call comes back to its caller or it does not.
MoveAssign ==
    \E moved \in {moveAssign(This, that)}, err \in {"none", "undefined"} :
        MoveRan("moveAssign", moved, err)

\* Runs that build two objects and end with a move.
NextMove ==
    \/ ThisChanges
    \/ ThatAdd
    \/ ThatAddFirst
    \/ ThatSkip
    \/ MoveConstruct
    \/ MoveAssign

SpecMove == InitPair /\ [][NextMove]_vars

\* --------------------------------------------------------------- iterators
\* static_cast<ptrdiff_t>(x): the bits of x read as a signed number.
PtrDiffT(x) ==
    LET bits == x % SizeModulus
    IN  IF bits >= SizeModulus \div 2 THEN bits - SizeModulus ELSE bits

\* An exception that leaves a function declared throw(): std::unexpected()
\* ends the program, the caller never sees the exception.
Unexpected(r) == IF r.err = "none" THEN r ELSE [r EXCEPT !.err = "terminate"]

\* dereferenceAt whose reverse branch leaves out the - 1.
dereferenceAt_reverseOffByOne(b, position, reverse) ==
    Unexpected(IF reverse THEN operatorIndex(b, SizeT(size(b) - position))
               ELSE operatorIndex(b, SizeT(position)))

\* dereferenceAt that reads the slot `position` of the array, as a pointer
\* into the block taken when the iterator was made would.
dereferenceAt_physical(b, position, reverse) ==
    Unexpected(IF reverse THEN operatorIndex(b, SizeT(size(b) - position - 1))
               ELSE IF _checkIndex(b, SizeT(position)) # "none"
               THEN Throws(b, _checkIndex(b, SizeT(position)))
               ELSE Returns(b, Read(b.data, position)))

\* IteratorBase::dereferenceAt(vectorDequePtr, position) throw(); the
\* ptrdiff_t position is converted to size_t by the subtraction and by the
\* call of operator [](size_t).
dereferenceAt(b, position, reverse) ==
    Unexpected(IF reverse THEN operatorIndex(b, SizeT(size(b) - position - 1))
               ELSE operatorIndex(b, SizeT(position)))

\* operator *()
dereference(b, it) == dereferenceAt(b, PtrDiffT(it.position), it.reverse)

\* operator [](offset)
subscript(b, it, offset) ==
    dereferenceAt(b, PtrDiffT(PtrDiffT(it.position) + offset), it.reverse)

\* operator ++ and operator --, on the size_t _position
increment(it) == [it EXCEPT !.position = SizeT(it.position + 1)]

decrement(it) == [it EXCEPT !.position = SizeT(it.position - 1)]

\* operator += and operator -=
plusAssign(it, amount) == [it EXCEPT !.position = SizeT(it.position + amount)]

minusAssign(it, amount) == [it EXCEPT !.position = SizeT(it.position - amount)]

\* Calls on an array of up to MaxIterCap slots.
InitIter == Init /\ _capacity <= MaxIterCap

IterWatched == _capacity <= MaxIterCap

\* The caller's iterator becomes `it`; the object is not touched.  An
\* iterator is taken no farther than MaxOffset from the positions 0..size().
Holds(it) ==
    /\ call.op = "none"
    /\ PtrDiffT(it.position) \in (0 - MaxOffset)..(_size + MaxOffset)
    /\ iterator' = it
    /\ UNCHANGED <<_capacity, _data, _position, _size, that, shared, pre, preThat, call>>

\* begin(), cbegin()
Begin == Holds(Iterator("this", 0, FALSE))

\* end(), cend()
End == Holds(Iterator("this", _size, FALSE))

\* rbegin(), crbegin()
CRBegin == Holds(Iterator("this", 0, TRUE))

\* crend()
CREnd == Holds(Iterator("this", _size, TRUE))

Increment == iterator.owner = "this" /\ Holds(increment(iterator))

Decrement == iterator.owner = "this" /\ Holds(decrement(iterator))

PlusAssign ==
    /\ iterator.owner = "this"
    /\ \E amount \in 1..MaxOffset : Holds(plusAssign(iterator, amount))

MinusAssign ==
    /\ iterator.owner = "this"
    /\ \E amount \in 1..MaxOffset : Holds(minusAssign(iterator, amount))

\* A read through the iterator with outcome r, on record.
Reads(c, r) ==
    /\ call.op = "none"
    /\ iterator.owner = "this"
    /\ \E out \in {r} :
        /\ Becomes(out.buf)
        /\ UNCHANGED <<that, shared, iterator>>
        /\ pre' = This
        /\ preThat' = that
        /\ call' = [c EXCEPT !.it = iterator, !.err = out.err, !.result = out.result]

\* *iterator
Dereference == Reads(Call("*", Junk, 0, <<>>, "none", Junk), dereference(This, iterator))

\* iterator[offset]
Subscript ==
    \E offset \in (0 - MaxOffset)..MaxOffset :
        Reads(Call("[]", Junk, offset, <<>>, "none", Junk),
              subscript(This, iterator, offset))

\* Calls on the object while the caller holds an iterator, moves of the
\* iterator and reads through it.
NextIter ==
    \/ (Add \/ Insert \/ RemoveAt \/ Skip) /\ IterWatched /\ call' = NoCall
    \/ AddFirst /\ IterWatched
    \/ Begin
    \/ End
    \/ CRBegin
    \/ CREnd
    \/ Increment
    \/ Decrement
    \/ PlusAssign
    \/ MinusAssign
    \/ Dereference
    \/ Subscript

SpecIter == InitIter /\ [][NextIter]_vars

\* ------------------------------------------------- iterator comparisons
\* operator == that compares the positions alone.
iteratorEquals_positionOnly(a, b) == a.position = b.position

\* operator ==(that): _position == that._position
\*                    && _vectorDequePtr == that._vectorDequePtr
iteratorEquals(a, b) == a.position = b.position /\ a.owner = b.owner

\* operator !=(that)
iteratorNotEquals(a, b) == ~iteratorEquals(a, b)

\* operator <(that) and operator >(that), on the size_t positions
iteratorLess(a, b) == a.position < b.position

iteratorGreater(a, b) == a.position > b.position

\* operator <=(that) and operator >=(that)
iteratorLessEquals(a, b) == iteratorEquals(a, b) \/ iteratorLess(a, b)

iteratorGreaterEquals(a, b) == iteratorEquals(a, b) \/ iteratorGreater(a, b)

\* operator -(that): static_cast<ptrdiff_t>(_position) - that._position is
\* computed in size_t and converted to the ptrdiff_t it returns.
iteratorDifference(a, b) == PtrDiffT(SizeT(SizeT(PtrDiffT(a.position)) - b.position))

\* operator +(amount), amount + it and operator -(amount): += and -= on a copy
iteratorPlus(it, amount) == plusAssign(it, amount)

iteratorMinus(it, amount) == minusAssign(it, amount)

\* A bool as the int it converts to.
Bit(answer) == IF answer THEN 1 ELSE 0

\* The iterators the caller's one can be compared with: of its direction (the
\* operators take a ConstIterator of the same IS_REVERSE), made from this
\* object or from another one, up to MaxOffset away from 0..size().
Operands ==
    {Iterator(owner, SizeT(position), iterator.reverse) :
        owner \in {"this", "other"},
        position \in (0 - MaxOffset)..(_size + MaxOffset)}

\* An expression over the caller's iterator is evaluated and put on record;
\* neither the iterator nor the object is touched.
Evaluates(c) ==
    /\ call.op = "none"
    /\ iterator.owner = "this"
    /\ pre' = This
    /\ preThat' = that
    /\ call' = c
    /\ UNCHANGED <<_capacity, _data, _position, _size, that, shared, iterator>>

\* iterator == b, != b, < b, > b, <= b, >= b in `target`, iterator - b in
\* `result`, as the comparison helpers of the tests evaluate them on one pair.
Compare ==
    \E b \in Operands :
        Evaluates([Call("compare", Junk, 0, <<>>, "none", iteratorDifference(iterator, b))
                   EXCEPT !.it = b,
                          !.target = <<Bit(iteratorEquals(iterator, b)),
                                       Bit(iteratorNotEquals(iterator, b)),
                                       Bit(iteratorLess(iterator, b)),
                                       Bit(iteratorGreater(iterator, b)),
                                       Bit(iteratorLessEquals(iterator, b)),
                                       Bit(iteratorGreaterEquals(iterator, b))>>])

\* (iterator + amount) - amount, the resulting iterator in `it`
PlusMinus ==
    \E amount \in (0 - MaxOffset)..MaxOffset :
        Evaluates([Call("+-", Junk, amount, <<>>, "none", Junk)
                   EXCEPT !.it = iteratorMinus(iteratorPlus(iterator, amount), amount)])

\* A caller that takes iterators of a buffer, moves them and compares them.
NextCompare ==
    \/ Add /\ IterWatched /\ call' = NoCall
    \/ Begin
    \/ End
    \/ CRBegin
    \/ CREnd
    \/ Increment
    \/ Decrement
    \/ Compare
    \/ PlusMinus

SpecCompare == InitIter /\ [][NextCompare]_vars

\* ------------------------------------------- the virtual-dispatch variant
\* ReverseIteratorImpl::dereferenceAt(vectorDequePtr, position) of
\* src/VectorDeque/VectorDeque.hpp: (*vectorDequePtr)[size() - position],
\* with the operator [] both variants have; it is not declared throw().
ReverseIteratorImpl_dereferenceAt(b, position) ==
    operatorIndex(b, SizeT(size(b) - position))

\* *iterator on a reverse iterator of the variant: operator *() hands
\* static_cast<ptrdiff_t>(_position) to the virtual dereferenceAt.
ReverseDereference ==
    /\ iterator.reverse
    /\ Reads(Call("virtual*", Junk, 0, <<>>, "none", Junk),
             ReverseIteratorImpl_dereferenceAt(This, PtrDiffT(iterator.position)))

\* Reverse iterators of the variant over buffers filled and emptied without
\* growth (add and skip are the same in both variants).
NextVirtual ==
    \/ (Add \/ Skip) /\ IterWatched /\ _capacity' = _capacity /\ call' = NoCall
    \/ CRBegin
    \/ CREnd
    \/ Increment
    \/ Decrement
    \/ ReverseDereference

SpecVirtual == InitIter /\ [][NextVirtual]_vars

\* -------------------------------------------------------- slots addressed
\* The slots block[start] .. block[start + n - 1] a copy of n elements covers.
Span(start, n) == IF n > 0 THEN start..(start + n - 1) ELSE {}

\* The slots of _data the two memcpy calls and the assignment of
\* _shiftDown(from, until) read and write.
_shiftDownSlots(b, from, until) ==
    LET length == until - from
        start == _internalNegativeIndexFrom(b, from, 1)
        numBeforeWrap == _numBeforeWrap(b, start, length)
        numAfterWrap == length - numBeforeWrap
    IN  Span(start, numBeforeWrap) \cup Span(start + 1, numBeforeWrap)
            \cup (IF numAfterWrap # 0
                  THEN {b.capacity - 1, 0} \cup Span(0, numAfterWrap - 1)
                           \cup Span(1, numAfterWrap - 1)
                  ELSE {})

\* The slots of _data the loop of _shiftUp(from, until) reads and writes.
_shiftUpSlots(b, from, until) ==
    UNION {{_internalNegativeIndexFrom(b, until, i),
            _internalNegativeIndexFrom(b, until, i + 1)} : i \in 0..(until - from - 1)}

\* The slots of _data the two memcpy calls of sliceToArray(target, from, until)
\* read, once _checkRange has passed.
sliceToArraySlots(b, from, until) ==
    LET length == until - from
        start == _internalIndex(b, from)
        numBeforeWrap == _numBeforeWrap(b, start, length)
        numAfterWrap == length - numBeforeWrap
    IN  Span(start, numBeforeWrap) \cup Span(0, numAfterWrap)

\* The slots of _data the two memcpy calls of _addAll(elements, start, length)
\* write.
_addAllSlots(b, start, length) ==
    LET numBeforeWrap == Min(b.capacity - start, length)
        numAfterWrap == length - numBeforeWrap
    IN  Span(start, numBeforeWrap) \cup Span(0, numAfterWrap)

\* Slots as pairs <<length of the block, slot>>.
In(b, slots) == {<<b.capacity, slot>> : slot \in slots}

\* _ensureCanFit(amount): copyToArray reads the old block and fills the new.
GrowthSlots(b, amount) ==
    IF b.capacity < b.size + amount
    THEN In(b, sliceToArraySlots(b, 0, b.size))
             \cup In(_ensureCanFit(b, amount), Span(0, b.size))
    ELSE {}

\* Every slot the call c, made on buffer b, reads or writes in the block the
\* object holds at that moment.
AddressedBy(c, b) ==
    LET fit == _ensureCanFit(b, 1)
        before == c.index
    IN  CASE c.op = "add" \/ (c.op = "insert" /\ before # 0 /\ before = b.size) ->
                GrowthSlots(b, 1) \cup In(fit, {_writePosition(fit)})
          [] c.op = "addFirst" \/ (c.op = "insert" /\ before = 0) ->
                GrowthSlots(b, 1)
                    \cup In(fit, {IF fit.position = 0 THEN fit.capacity - 1
                                  ELSE fit.position - 1})
          [] c.op = "addAll" ->
                LET room == _ensureCanFit(b, Len(c.elements))
                IN  GrowthSlots(b, Len(c.elements))
                        \cup In(room, _addAllSlots(room, _writePosition(room),
                                                   Len(c.elements)))
          [] c.op = "insert" /\ before # 0 /\ before # b.size ->
                IF _checkIndex(b, before) # "none" THEN {}
                ELSE IF b.size = b.capacity
                THEN In(b, sliceToArraySlots(b, 0, before))
                         \cup In(b, sliceToArraySlots(b, before, b.size))
                         \cup In(_insertAndResize(b, c.element, before), Span(0, b.size + 1))
                ELSE IF before <= b.size \div 2
                THEN In(b, _shiftDownSlots(b, 0, before))
                         \cup In(b, {_internalIndex(_shiftDown(b, 0, before, FALSE), before)})
                ELSE In(b, _shiftUpSlots(b, before, b.size))
                         \cup In(b, {_internalIndex(b, before)})
          [] c.op = "removeAt" ->
                IF _checkIndex(b, before) # "none" THEN {}
                ELSE In(b, {_internalIndex(b, before)})
                         \cup (IF before = b.size - 1 THEN {}
                               ELSE In(b, _shiftUpSlots(b, 0, before)))
          [] c.op = "sliceToArray" ->
                IF _checkRange(b, c.from, c.index) # "none" THEN {}
                ELSE In(b, sliceToArraySlots(b, c.from, c.index))
          [] c.op = "copyToArray" -> In(b, sliceToArraySlots(b, 0, b.size))
          [] c.op = "reverseSliceToArray" ->
                IF _checkRange(b, c.from, c.index) # "none" THEN {}
                ELSE In(b, {_internalIndex(b, b.size - (i + c.from) - 1) :
                                i \in 0..(c.index - c.from - 1)})
          [] OTHER -> {}

\* The calls that store elements, remove one from the middle or copy them out.
NextSlots ==
    \/ Quiet /\ Watched
    \/ Add /\ Watched
    \/ AddFirst /\ Watched
    \/ AddAll /\ Watched
    \/ Insert /\ Watched
    \/ RemoveAt /\ Watched
    \/ SliceToArray /\ Watched
    \/ CopyToArray /\ Watched
    \/ ReverseSliceToArray /\ Watched

SpecSlots == InitWatch /\ [][NextSlots]_vars

\* ------------------------------------------- elements passed by reference
\* add(element) with element = (*this)[index]: a reference to the slot
\* _internalIndex(index) of the block held when the call is made.  It is read
\* after _ensureCanFit(); once that has deleted the block the read is of freed
\* memory and yields `freed`, whatever that memory holds by then.
addOwn(b, index, freed) ==
    LET c == _ensureCanFit(b, 1)
        element == IF c.capacity # b.capacity THEN freed
                   ELSE Read(c.data, _internalIndex(b, index))
    IN  add(b, element)

\* addFirst(element) with element = (*this)[index]
addFirstOwn(b, index, freed) ==
    LET c == _ensureCanFit(b, 1)
        element == IF c.capacity # b.capacity THEN freed
                   ELSE Read(c.data, _internalIndex(b, index))
    IN  addFirst(b, element)

\* insert(element, before) with element = (*this)[index]: _insertAndResize
\* reads the element before it deletes the block; otherwise the element is read
\* from its slot after the shift.
insertOwn(b, index, before, backward, freed) ==
    IF before = 0 THEN Done(addFirstOwn(b, index, freed))
    ELSE IF before # b.size /\ _checkIndex(b, before) # "none"
         THEN Throws(b, _checkIndex(b, before))
    ELSE IF before = b.size THEN Done(addOwn(b, index, freed))
    ELSE IF b.size = b.capacity
    THEN InsertInside(b, Read(b.data, _internalIndex(b, index)), before, backward)
    ELSE LET shifted == IF before <= b.size \div 2
                        THEN _shiftDown(b, 0, before, backward)
                        ELSE _shiftUp(b, before, b.size)
         IN  InsertInside(b, Read(shifted.data, _internalIndex(b, index)), before, backward)

\* What a read of freed memory can yield.
Freed == Values \cup {Junk}

\* add((*this)[index]), addFirst((*this)[index]), insert((*this)[index], before);
\* `from` keeps the index of the element passed.
AddOwn ==
    /\ Running
    /\ \E index \in 0..(_size - 1), freed \in Freed, observed \in BOOLEAN :
        RanWith([Call("add(own)", Junk, 0, <<>>, "none", Junk) EXCEPT !.from = index],
                Done(addOwn(This, index, freed)), observed)

AddFirstOwn ==
    /\ Running
    /\ \E index \in 0..(_size - 1), freed \in Freed, observed \in BOOLEAN :
        RanWith([Call("addFirst(own)", Junk, 0, <<>>, "none", Junk) EXCEPT !.from = index],
                Done(addFirstOwn(This, index, freed)), observed)

InsertOwn ==
    /\ Running
    /\ \E index \in 0..(_size - 1), before \in 0..(_size + 1), backward \in BOOLEAN,
          freed \in Freed, observed \in BOOLEAN :
        RanWith([Call("insert(own)", Junk, before, <<>>, "none", Junk) EXCEPT !.from = index],
                insertOwn(This, index, before, backward, freed), observed)

\* Calls that are handed an element of the buffer they are made on.
NextOwn ==
    \/ Quiet /\ Watched
    \/ AddOwn /\ Watched
    \/ AddFirstOwn /\ Watched
    \/ InsertOwn /\ Watched

SpecOwn == InitWatch /\ [][NextOwn]_vars

\* ---------------------------------------------------------- sliding window
\* for (it = begin(); it != end(); ++it) collecting *it.
RECURSIVE IterateFrom(_, _, _)
IterateFrom(b, it, last) ==
    IF it = last THEN <<>>
    ELSE <<dereference(b, it)>> \o IterateFrom(b, increment(it), last)

Iteration(b) ==
    IterateFrom(b, Iterator("this", 0, FALSE), Iterator("this", size(b), FALSE))

\* A window slides over the object: skip(1) and add(x) take turns, skip(1)
\* first, from any buffer that holds an element.  The record of the call
\* keeps the capacity (from) and the count (index) the window started with,
\* the rounds completed (result) and the elements a plain sequence would
\* hold under the same calls (elements).
WindowSkip ==
    /\ call.op \in {"none", "window.add"}
    /\ call.op = "none" => _size > 0
    /\ call.result < MaxSlides
    /\ \E out \in {skip(This, skip_amount)} :
        /\ Becomes(out.buf)
        /\ UNCHANGED <<that, shared, iterator, preThat>>
        /\ pre' = This
        /\ call' = IF call.op = "none"
                   THEN [NoCall EXCEPT !.op = "window.skip",
                                       !.from = _capacity,
                                       !.index = _size,
                                       !.elements = RefSkip(Contents(This), skip_amount),
                                       !.err = out.err]
                   ELSE [call EXCEPT !.op = "window.skip",
                                     !.elements = RefSkip(call.elements, skip_amount),
                                     !.err = out.err]

WindowAdd ==
    /\ call.op = "window.skip"
    /\ \E element \in Values :
        /\ Becomes(add(This, element))
        /\ UNCHANGED <<that, shared, iterator, preThat>>
        /\ pre' = This
        /\ call' = [call EXCEPT !.op = "window.add",
                                !.element = element,
                                !.elements = Append(call.elements, element),
                                !.result = call.result + 1]

\* Calls that build a layout, then a sliding window.
NextWindow ==
    \/ (Add \/ AddFirst \/ Insert \/ RemoveAt \/ Skip) /\ IterWatched /\ call' = NoCall
    \/ WindowSkip
    \/ WindowAdd

SpecWindow == InitIter /\ [][NextWindow]_vars

\* ------------------------------------------------- calls with an iterator
\* Runs that build a layout and end with the insert or the removeAt that
\* takes one of the caller's iterators.
NextIterCall ==
    \/ Quiet /\ Watched
    \/ InsertAt /\ Watched
    \/ RemoveAtIterator /\ Watched

SpecIterCall == InitWatch /\ [][NextIterCall]_vars

\* ------------------------------------------------------------- bulk calls
\* Runs that build a layout and end with a call that takes an amount, a
\* range or an array.
NextBulk ==
    \/ Quiet /\ Watched
    \/ PopSome /\ Watched
    \/ PopSomeLast /\ Watched
    \/ SliceToArray /\ Watched
    \/ ReverseSliceToArray /\ Watched
    \/ Skip /\ Watched
    \/ SkipLast /\ Watched
    \/ AddAll /\ Watched

SpecBulk == InitWatch /\ [][NextBulk]_vars

\* ================================================================ claims
\* The logical elements of the object now, and when the last call started.
Now == Contents(This)
Before == Contents(pre)

\* What the last call does to a plain sequence s (a call the sequence cannot
\* take, an index or amount past its end, leaves it as it is).
RefAfter(s) ==
    CASE call.op = "add" -> Append(s, call.element)
      [] call.op = "addFirst" -> <<call.element>> \o s
      [] call.op = "insert" ->
            IF call.index <= Len(s) THEN RefInsert(s, call.element, call.index) ELSE s
      [] call.op = "removeAt" ->
            IF call.index < Len(s) THEN RefRemove(s, call.index) ELSE s
      [] call.op = "skip" ->
            IF call.index <= Len(s) THEN RefSkip(s, call.index) ELSE s
      [] call.op = "skipLast" ->
            IF call.index <= Len(s) THEN RefSkipLast(s, call.index) ELSE s
      [] OTHER -> s

\* C1: after each add, addFirst, insert, removeAt, skip or skipLast call, size()
\* is the length of the reference sequence replayed with the same call and at(i)
\* is the reference's i-th element, from every buffer a run of calls on an
\* empty buffer reaches.
C1_MatchesReference ==
    call.op \in {"add", "addFirst", "insert", "removeAt", "skip", "skipLast"} =>
        /\ _size = Len(RefAfter(Before))
        /\ \A i \in 0..(_size - 1) : at(This, i) = RefAfter(Before)[i + 1]

\* C2: count <= capacity; start < capacity when capacity > 0 and start = 0 when
\* capacity = 0.
C2_FieldsInRange ==
    /\ 0 <= _size /\ _size <= _capacity
    /\ 0 <= _position
    /\ _capacity > 0 => _position < _capacity
    /\ _capacity = 0 => _position = 0

\* A skip that moves the start offset across the physical end of the storage.
C2_Witness ==
    /\ call.op = "skip" /\ call.err = "none"
    /\ call.index > 0
    /\ pre.position + call.index >= pre.capacity
    /\ _size > 0

\* C3: add(x) increases size() by one, makes at(old size) = x and leaves at(i)
\* as it was for every i < old size.
C3_AddAppends ==
    call.op = "add" =>
        /\ _size = pre.size + 1
        /\ at(This, pre.size) = call.element
        /\ \A i \in 0..(pre.size - 1) : at(This, i) = at(pre, i)

\* add on a wrapped buffer with room left: the written slot lies before the start.
C3_Witness ==
    /\ call.op = "add"
    /\ pre.size >= 2 /\ pre.size < pre.capacity
    /\ pre.position + pre.size >= pre.capacity
    /\ Now = <<1, 2, 1>>

\* C4: addFirst(x) increases size() by one, makes at(0) = x and at(i+1) the old
\* at(i); without growth it only moves start one slot back (from 0 to
\* capacity-1) and writes that one slot.
C4_AddFirstPrepends ==
    call.op = "addFirst" =>
        /\ _size = pre.size + 1
        /\ at(This, 0) = call.element
        /\ \A i \in 0..(pre.size - 1) : at(This, i + 1) = at(pre, i)
        /\ pre.size < pre.capacity =>
              /\ _capacity = pre.capacity
              /\ _position = (IF pre.position = 0 THEN pre.capacity - 1
                              ELSE pre.position - 1)
              /\ _data = [pre.data EXCEPT ![_position] = call.element]

\* addFirst on a non-empty buffer whose start is slot 0: start wraps to the end.
C4_Witness ==
    /\ call.op = "addFirst"
    /\ pre.position = 0 /\ pre.size >= 1 /\ pre.size < pre.capacity
    /\ _position = _capacity - 1

\* A call insert(x, before) on a buffer with room left, 0 < before <= count/2.
FrontHalfInsert ==
    /\ call.op = "insert"
    /\ pre.size < pre.capacity
    /\ 0 < call.index /\ call.index <= pre.size \div 2

\* C5: after a front-half insert the contents are old[0..before), x,
\* old[before..count), and count is one more.
C5_FrontHalfInsert ==
    FrontHalfInsert =>
        /\ _size = pre.size + 1
        /\ Now = RefInsert(Before, call.element, call.index)

\* A call insert(x, before) on a buffer with room left, count/2 < before < count.
BackHalfInsert ==
    /\ call.op = "insert"
    /\ pre.size < pre.capacity
    /\ pre.size \div 2 < call.index /\ call.index < pre.size

\* C6: after a back-half insert the contents are old[0..before), x,
\* old[before..count), and count is one more.
C6_BackHalfInsert ==
    BackHalfInsert =>
        /\ call.err = "none"
        /\ _size = pre.size + 1
        /\ Now = RefInsert(Before, call.element, call.index)

\* A back-half insert whose shifted suffix crosses the physical end.
C6_Witness ==
    /\ BackHalfInsert
    /\ pre.position + call.index < pre.capacity
    /\ pre.position + pre.size >= pre.capacity

\* C7: insert(x, 0) leaves what addFirst(x) leaves, insert(x, count) what add(x)
\* leaves (size() and every at(i)), and insert(x, before) with before > count
\* throws the out-of-range error.
C7_InsertAtEnds ==
    call.op = "insert" =>
        /\ call.index = 0 =>
              call.err = "none" /\ Now = Contents(addFirst(pre, call.element))
        /\ call.index = pre.size =>
              call.err = "none" /\ Now = Contents(add(pre, call.element))
        /\ call.index > pre.size => call.err = "length_error"

\* insert(x, count) on a full, non-empty buffer.
C7_Witness ==
    /\ call.op = "insert"
    /\ call.index = pre.size
    /\ pre.size = pre.capacity /\ pre.size >= 2

\* A call insert(x, before) with 0 < before < count on a full buffer.
FullInsert ==
    /\ call.op = "insert"
    /\ pre.size = pre.capacity
    /\ 0 < call.index /\ call.index < pre.size

\* C8: an interior insert on a full buffer gives old[0..before), x,
\* old[before..count): the element that was at before is at before+1 and count
\* is one more.
C8_GrowthDuringInsert ==
    FullInsert =>
        /\ call.err = "none"
        /\ _size = pre.size + 1
        /\ at(This, call.index + 1) = at(pre, call.index)
        /\ Now = RefInsert(Before, call.element, call.index)

\* An interior insert on a full buffer whose elements wrap around the end.
C8_Witness ==
    /\ FullInsert
    /\ pre.position > 0 /\ pre.capacity >= 4
    /\ call.index >= 2

\* A call of op that found the buffer full.
GrowsOn(op) == call.op = op /\ pre.size = pre.capacity

\* C9: a growing add keeps the elements in order and leaves them linearized:
\* start = 0 and logical element i in physical slot i; a growing addFirst keeps
\* the old elements in order in slots 0..count-1 of the new block.
C9_GrowthLinearizes ==
    /\ GrowsOn("add") =>
          /\ _position = 0
          /\ \A i \in 0..(pre.size - 1) : Read(_data, i) = at(pre, i)
          /\ Read(_data, pre.size) = call.element
          /\ _size = pre.size + 1
    /\ GrowsOn("addFirst") =>
          /\ \A i \in 0..(pre.size - 1) : Read(_data, i) = at(pre, i)
          /\ Now = <<call.element>> \o Before
          /\ _position = _capacity - 1

\* A growing add on a buffer whose elements wrap around the end.
C9_Witness ==
    /\ GrowsOn("add")
    /\ pre.position > 0 /\ pre.size >= 3
    /\ _capacity = 2 * (pre.size + 1) + 1

\* The number of elements the last call adds.
Added == IF call.op = "addAll" THEN call.index ELSE 1

\* The last call reallocated the backing array.
Grew == call.op \in {"add", "addFirst", "addAll", "insert"} /\ _capacity # pre.capacity

C11_ResizesOnlyWhenFull ==
    (/\ call.op \in {"add", "addFirst", "addAll", "addAllFirst", "insert", "removeAt",
                     "skip", "skipLast", "skip()", "skipLast()", "clear",
                     "pop", "popLast", "popSome", "popSomeLast"}
     /\ pre.size < pre.capacity)
    => _capacity = pre.capacity

\* C12: removeAt(index) with index < _size returns the element that was at
\* index, takes one off _size, and leaves at(i) the old at(i) for i < index and
\* the old at(i + 1) for i >= index, whatever the start offset.
C12_RemoveAt ==
    (call.op = "removeAt" /\ call.index < pre.size)
    => /\ call.err = "none"
       /\ call.result = at(pre, call.index)
       /\ _size = pre.size - 1
       /\ \A i \in 0..(_size - 1) :
            at(This, i) = IF i < call.index THEN at(pre, i) ELSE at(pre, i + 1)

\* removeAt of an interior element of a buffer whose elements wrap around the
\* end of the array.
C12_Witness ==
    /\ call.op = "removeAt"
    /\ call.err = "none"
    /\ 0 < call.index /\ call.index < pre.size - 1
    /\ pre.position + pre.size > pre.capacity
    /\ \E i \in 0..(pre.size - 1) : at(pre, i) # at(pre, call.index)

\* C13: skip(n) with n <= _size removes the first n elements and advances
\* _position by n modulo _capacity; skipLast(n) removes the last n and leaves
\* _position and the remaining elements alone; neither writes a slot of the
\* array; both take n = 1 when it is left out, and throw length_error when
\* n > _size.
C13_SkipAndSkipLast ==
    /\ (call.op = "skip" /\ call.index <= pre.size)
       => /\ call.err = "none"
          /\ _size = pre.size - call.index
          /\ \A i \in 0..(_size - 1) : at(This, i) = at(pre, i + call.index)
          /\ pre.capacity > 0 => _position = (pre.position + call.index) % pre.capacity
          /\ _data = pre.data /\ _capacity = pre.capacity
    /\ (call.op = "skipLast" /\ call.index <= pre.size)
       => /\ call.err = "none"
          /\ _size = pre.size - call.index
          /\ \A i \in 0..(_size - 1) : at(This, i) = at(pre, i)
          /\ _position = pre.position
          /\ _data = pre.data /\ _capacity = pre.capacity
    /\ (call.op \in {"skip", "skipLast"} /\ call.index > pre.size)
       => call.err = "length_error"
    /\ (call.op = "skip()" /\ pre.size >= 1)
       => /\ call.err = "none"
          /\ Now = RefSkip(Before, 1)
          /\ _position = (pre.position + 1) % pre.capacity
    /\ (call.op = "skipLast()" /\ pre.size >= 1)
       => /\ call.err = "none"
          /\ Now = RefSkipLast(Before, 1)
          /\ _position = pre.position
    /\ (call.op \in {"skip()", "skipLast()"} /\ pre.size = 0)
       => call.err = "length_error"

\* skip of two or more elements whose new start lies past the end of the array.
C13_Witness ==
    /\ call.op = "skip"
    /\ call.err = "none"
    /\ call.index >= 2
    /\ pre.position + call.index > pre.capacity
    /\ _size >= 1

\* C14: on a buffer that is not empty pop() returns the first element, the
\* value peek() returns, and removes it; popLast() returns the last element,
\* the value peekLast() returns, and removes it; peek and peekLast change
\* nothing.  On an empty buffer all four throw length_error.
C14_PeekAndPop ==
    LET first == pre.data[pre.position]
        last == pre.data[(pre.position + pre.size - 1) % pre.capacity]
    IN  /\ (call.op = "peek" /\ pre.size > 0)
           => call.err = "none" /\ call.result = first /\ This = pre
        /\ (call.op = "peekLast" /\ pre.size > 0)
           => call.err = "none" /\ call.result = last /\ This = pre
        /\ (call.op = "pop" /\ pre.size > 0)
           => /\ call.err = "none"
              /\ call.result = first /\ call.result = peek(pre).result
              /\ Now = Tail(Before)
        /\ (call.op = "popLast" /\ pre.size > 0)
           => /\ call.err = "none"
              /\ call.result = last /\ call.result = peekLast(pre).result
              /\ Now = SubSeq(Before, 1, Len(Before) - 1)
        /\ (call.op \in {"peek", "peekLast", "pop", "popLast"} /\ pre.size = 0)
           => call.err = "length_error"

\* popLast on a buffer whose elements wrap around the end of the array and
\* whose last element differs from its first.
C14_Witness ==
    /\ call.op = "popLast"
    /\ call.err = "none"
    /\ pre.size >= 2
    /\ pre.position + pre.size > pre.capacity
    /\ call.result # at(pre, 0)

Reverse(s) == [i \in 1..Len(s) |-> s[Len(s) + 1 - i]]

\* C18: addAll(array, n) leaves the elements that n successive add calls in
\* array order leave (the old elements followed by the array), also when the
\* written slots wrap around the end of the array and when the buffer grows;
\* addAllFirst leaves the elements that successive addFirst calls leave: the
\* array reversed, followed by the old elements, so that the array's last
\* element is at index 0.
C18_BulkEqualsSequential ==
    /\ call.op = "addAll"
       => /\ Now = Contents(addAllRange(pre, call.elements, call.index))
          /\ Now = Before \o call.elements
    /\ call.op = "addAllFirst"
       => /\ Now = Reverse(call.elements) \o Before
          /\ call.index >= 1 => at(This, 0) = call.elements[call.index]

\* addAll of two different elements, written on both sides of the array's end
\* without growth.
C18_Witness ==
    /\ call.op = "addAll"
    /\ call.index = 2
    /\ call.elements[1] # call.elements[2]
    /\ _capacity = pre.capacity
    /\ pre.position + pre.size = pre.capacity - 1

\* C15: operator [](i) throws length_error for every i >= _size, i == _size
\* and every i on an empty buffer included, and for every i < _size returns
\* the element in physical slot (_position + i) mod _capacity.
C15_IndexedAccess ==
    call.op = "at"
    => IF call.index >= pre.size
       THEN call.err = "length_error"
       ELSE /\ call.err = "none"
            /\ call.result = pre.data[(pre.position + call.index) % pre.capacity]

\* A read of an element stored before the start offset, past the wrap.
C15_Witness ==
    /\ call.op = "at"
    /\ call.err = "none"
    /\ pre.position + call.index >= pre.capacity
    /\ call.result \in Values
    /\ call.result # at(pre, 0)

\* C16: when insert, removeAt (by index or by iterator), skip, skipLast, peek,
\* peekLast, pop, popLast, popSome, popSomeLast, sliceToArray or
\* reverseSliceToArray throws
\* length_error or invalid_argument, _size, _position, _capacity and the
\* elements are as they were before the call.
C16_StrongGuarantee ==
    (/\ call.op \in {"insert", "insertAt", "removeAt", "removeAtIterator",
                     "skip", "skipLast", "skip()", "skipLast()",
                     "peek", "peekLast", "pop", "popLast", "popSome", "popSomeLast",
                     "sliceToArray", "reverseSliceToArray"}
     /\ call.err \in {"length_error", "invalid_argument"})
    => /\ _size = pre.size
       /\ _position = pre.position
       /\ _capacity = pre.capacity
       /\ Now = Before

\* skipLast asked for more elements than a non-empty buffer holds.
C16_Witness ==
    /\ call.op = "skipLast"
    /\ call.err = "length_error"
    /\ pre.size >= 2
    /\ pre.position + pre.size > pre.capacity

Argument == IF call.same THEN pre ELSE preThat

\* Same size and the same element at every index.
SameElements(a, b) ==
    /\ a.size = b.size
    /\ \A i \in 0..(a.size - 1) : at(a, i) = at(b, i)

\* C19: a == b holds exactly when a and b have the same size and the same
\* element at every index, whatever their capacities and start offsets (two
\* empty buffers of different capacity are equal); a != b is its negation.
C19_Equality ==
    /\ call.op = "==" => call.answer = SameElements(pre, Argument)
    /\ call.op = "!=" => call.answer = ~SameElements(pre, Argument)

\* Two different objects with two or more elements, different capacities and
\* different start offsets, the first one wrapped, compare equal.
C19_Witness ==
    /\ call.op = "=="
    /\ ~call.same
    /\ call.answer
    /\ pre.size >= 2
    /\ pre.capacity # preThat.capacity
    /\ pre.position # preThat.position
    /\ pre.position + pre.size > pre.capacity

\* After a copy: the elements and size of the source, start offset 0, the
\* source as it was, and a block of its own; after a self-assignment: nothing
\* changed.
CopyIsFaithful ==
    /\ (call.op \in {"copyConstruct", "copyAssign"} /\ ~call.same)
       => /\ SameElements(This, preThat)
          /\ operatorEquals(This, that, FALSE)
          /\ _position = 0
          /\ that = preThat
    /\ (call.op = "copyAssign" /\ call.same)
       => This = pre /\ that = preThat
    /\ ~shared

\* No call changes both objects: a call on one leaves the fields and the
\* array of the other as they were.
CallsStayApart == that' = that \/ UNCHANGED <<_capacity, _data, _position, _size>>

\* C20: copy-constructing or copy-assigning from an object S in any layout
\* yields an object equal to S with the same size and start offset 0 and
\* leaves S unchanged; the two are independent, a later call on either leaves
\* the other's elements alone; self-assignment changes nothing.
C20_Copies == [](CopyIsFaithful) /\ [][CallsStayApart]_vars

\* A copy assignment from a source whose elements wrap around the end of its
\* array, into an object that had other elements.
C20_Witness ==
    /\ call.op = "copyAssign"
    /\ ~call.same
    /\ preThat.size >= 2
    /\ preThat.position + preThat.size > preThat.capacity
    /\ pre.size >= 1
    /\ Before # Now

\* C21: after a move construction or move assignment from a source S, the
\* destination holds S's former elements in logical order and S is left
\* disengaged and empty: S.size() is 0 and S.isEmpty() is true.
C21_MoveEmptiesSource ==
    (call.op \in {"moveConstruct", "moveAssign"} /\ call.err = "none")
    => /\ Now = Contents(preThat)
       /\ that.data = NULL
       /\ size(that) = 0
       /\ isEmpty(that)


\* The buffer built by adding the elements of array one by one, in order, to
\* a freshly constructed buffer of the given capacity.
Rebuilt(capacity, array) == AddEach(_init(capacity), ArrayOf(array), 0, Len(array))

\* C22: copying any reachable buffer b out with copyToArray and adding the
\* copied elements one by one with add to a fresh empty buffer, whatever its
\* initial capacity, gives a buffer c with c == b (and b == c).
C22_RoundTrip ==
    call.op = "copyToArray"
    => /\ call.err = "none"
       /\ This = pre
       /\ Len(call.target) = size(pre)
       /\ \A capacity \in 0..MaxInitCap \cup {DEFAULT_INITIAL_CAPACITY} :
              /\ operatorEquals(Rebuilt(capacity, call.target), pre, FALSE)
              /\ operatorEquals(pre, Rebuilt(capacity, call.target), FALSE)

\* A buffer of three or more elements, not all alike, that wrap around the
\* end of its array is copied out.
C22_Witness ==
    /\ call.op = "copyToArray"
    /\ pre.size >= 3
    /\ pre.position + pre.size > pre.capacity
    /\ \E i, j \in 1..pre.size : Before[i] # Before[j]


\* C23: clear() makes isEmpty() true and leaves the capacity and the block
\* with all its slots as they were; a second clear() right after it changes
\* nothing, and isEmpty() is true after both calls.
C23_ClearTwice ==
    call.op = "clear"
    => /\ call.err = "none"
       /\ isEmpty(This)
       /\ _capacity = pre.capacity
       /\ _data = pre.data
       /\ clear(This) = This
       /\ isEmpty(clear(This))
       /\ isEmpty(pre) => This = pre

\* A buffer of two or more elements that wrap around the end of its array is
\* cleared.
C23_Witness ==
    /\ call.op = "clear"
    /\ pre.size >= 2
    /\ pre.position + pre.size > pre.capacity


\* C24: dereferencing a forward iterator at position p yields at(p) and
\* dereferencing a reverse iterator at position p yields at(count - p - 1),
\* read from the buffer as it is when the dereference is made; it[k] yields
\* what dereferencing an iterator at position p + k yields.
C24_Dereference ==
    /\ (call.op = "*" /\ call.it.position < size(pre))
       => /\ call.err = "none"
          /\ call.result = IF call.it.reverse
                           THEN Before[size(pre) - call.it.position]
                           ELSE Before[call.it.position + 1]
          /\ call.result = IF call.it.reverse
                           THEN operatorIndex(pre, size(pre) - call.it.position - 1).result
                           ELSE operatorIndex(pre, call.it.position).result
    /\ call.op = "[]"
       => /\ call.err = dereference(pre, plusAssign(call.it, call.index)).err
          /\ call.result = dereference(pre, plusAssign(call.it, call.index)).result

\* A reverse iterator at position 2 over a buffer whose two or more elements,
\* not all alike, wrap around the end of the array is read at offset -1.
C24_Witness ==
    /\ call.op = "[]"
    /\ call.err = "none"
    /\ call.it.reverse
    /\ call.it.position = 2
    /\ call.index = 0 - 1
    /\ pre.size >= 2
    /\ pre.position + pre.size > pre.capacity
    /\ Before[1] # Before[2]


\* Whatever calls the object has taken since the iterator was made, growth
\* included, an iterator whose position p is below the count dereferences to
\* the element that is at index p now (a reverse one to the element at
\* count - p - 1); after addFirst that is the element that was at p - 1.
StillUsable ==
    /\ (iterator.owner = "this" /\ iterator.position < _size)
       => dereference(This, iterator)
              = Returns(This, IF iterator.reverse THEN Now[_size - iterator.position]
                              ELSE Now[iterator.position + 1])
    /\ (call.op = "addFirst" /\ iterator.owner = "this" /\ ~iterator.reverse
            /\ iterator.position \in 1..size(pre))
       => dereference(This, iterator) = Returns(This, Before[iterator.position])

\* A step that changes the object leaves the iterator as it was.
PositionKept ==
    <<_capacity, _data, _position, _size>>' # <<_capacity, _data, _position, _size>>
    => iterator' = iterator

\* C25: no call on the buffer changes the position an existing iterator
\* stores, and the iterator stays usable across growth: after addFirst(x), or
\* any insertion or removal, an iterator at position p dereferences to the
\* element that is now at index p; after addFirst an iterator that pointed at
\* the third element points at what was the second.
C25_IteratorsKeepPosition == [](StillUsable) /\ [][PositionKept]_vars

\* addFirst on a full buffer of three elements, not all alike, whose elements
\* wrap around the end of the array, grows it while the caller holds an
\* iterator at the third element.
C25_Witness ==
    /\ call.op = "addFirst"
    /\ iterator = Iterator("this", 2, FALSE)
    /\ pre.size = 3
    /\ pre.position + pre.size > pre.capacity
    /\ _capacity > pre.capacity
    /\ Before[2] # Before[3]
    /\ dereference(This, iterator).result = Before[2]


\* The position a read through the iterator resolves, as dereferenceAt
\* receives it, and the index it hands to operator [].
ResolvedPosition ==
    PtrDiffT(PtrDiffT(call.it.position) + (IF call.op = "[]" THEN call.index ELSE 0))

ResolvedIndex ==
    IF call.it.reverse THEN SizeT(size(pre) - ResolvedPosition - 1)
    ELSE SizeT(ResolvedPosition)

\* C26: making, incrementing, decrementing or offsetting an iterator never
\* fails; dereferencing (*it or it[k]) an iterator whose resolved index is at
\* or past the count, as end() and crend() are, fails with the out-of-range
\* error that at(i) raises, which reaches the caller, and leaves the buffer
\* unchanged.
C26_OutOfRangeDereference ==
    (call.op \in {"*", "[]"} /\ ResolvedIndex >= size(pre))
    => /\ call.err = operatorIndex(pre, ResolvedIndex).err
       /\ call.err = "length_error"
       /\ This = pre

\* C27: an iterator moved or offset below position 0, forward or reverse,
\* never resolves to a live element: the dereference fails with the
\* out-of-range error, as an access at an index >= size() does.
C27_BelowZero ==
    (call.op \in {"*", "[]"} /\ ResolvedPosition < 0)
    => /\ call.err = "length_error"
       /\ This = pre


\* C28: from any buffer that holds an element, skip(1) followed by add(x),
\* repeated, never changes the capacity, keeps the count, and after every
\* step at(0..count-1) and the iteration from begin() to end() yield the
\* retained elements in insertion order, also once the start offset has
\* wrapped past capacity - 1 to 0.
C28_SlidingWindow ==
    call.op \in {"window.skip", "window.add"}
    => /\ call.err = "none"
       /\ _capacity = call.from
       /\ _capacity = pre.capacity
       /\ _size = IF call.op = "window.add" THEN call.index ELSE call.index - 1
       /\ Now = call.elements
       /\ \A i \in 0..(_size - 1) : operatorIndex(This, i) = Returns(This, call.elements[i + 1])
       /\ Iteration(This) = [i \in 1..Len(call.elements) |-> Returns(This, call.elements[i])]

\* A window of two or more elements, not all alike, has slid at least as many
\* times as the array has slots, so the start offset has gone round, and its
\* elements wrap around the end of the array.
C28_Witness ==
    /\ call.op = "window.add"
    /\ call.result >= _capacity
    /\ _size >= 2
    /\ _position + _size > _capacity
    /\ \E i, j \in 1..Len(call.elements) : call.elements[i] # call.elements[j]


\* The slot of the array that held element i when the last call started is
\* as the call found it.
SlotKept(i) == Read(_data, _internalIndex(pre, i)) = Read(pre.data, _internalIndex(pre, i))

\* C29: insert(x, before) with 0 < before < count on a buffer with room left
\* shifts the shorter side only: with before <= count/2 the start offset goes
\* down by one, wrapping from 0 to capacity - 1, and the slots that held the
\* old elements [before, count) are not written; otherwise the start offset
\* and the slots that held the old elements [0, before) stay as they were.
C29_InsertShiftsShorterSide ==
    /\ FrontHalfInsert
       => /\ call.err = "none"
          /\ _capacity = pre.capacity
          /\ _position = (IF pre.position = 0 THEN pre.capacity - 1 ELSE pre.position - 1)
          /\ \A i \in call.index..(pre.size - 1) : SlotKept(i)
    /\ BackHalfInsert
       => /\ call.err = "none"
          /\ _capacity = pre.capacity
          /\ _position = pre.position
          /\ \A i \in 0..(call.index - 1) : SlotKept(i)

\* A front-half insert into a buffer of four or more elements, the kept ones
\* not all alike, whose start offset is 0 and wraps to the last slot.
C29_Witness ==
    /\ FrontHalfInsert
    /\ pre.size >= 4
    /\ pre.position = 0
    /\ _position = _capacity - 1
    /\ call.index = 2
    /\ Before[3] # Before[4]


\* C30: removeAt(index) of an element that is not the last shifts the shorter
\* side only: with fewer elements after index than before it, the elements
\* after index move one slot back and the start offset and the slots of the
\* old elements [0, index) stay as they were; otherwise the elements before
\* index move one slot forward and the start offset advances by one.
C30_RemoveShiftsShorterSide ==
    (call.op = "removeAt" /\ call.index < pre.size - 1)
    => /\ call.err = "none"
       /\ _capacity = pre.capacity
       /\ IF pre.size - 1 - call.index < call.index
          THEN /\ _position = pre.position
               /\ \A i \in 0..(call.index - 1) : SlotKept(i)
          ELSE /\ _position = (pre.position + 1) % pre.capacity
               /\ \A i \in (call.index + 1)..(pre.size - 1) : SlotKept(i)


\* The index of the element the iterator handed to the last call pointed to
\* when the call started.
PointedIndex ==
    IF call.it.reverse THEN size(pre) - call.it.position - 1 ELSE call.it.position

\* C31: removeAt(it) with an iterator over this buffer that points to an
\* element removes and returns that element, at(p) for a forward iterator at
\* position p and at(count - p - 1) for a reverse one, and takes one off the
\* count.
C31_RemoveAtIterator ==
    (call.op = "removeAtIterator" /\ call.it.owner = "this"
        /\ dereference(pre, call.it).err = "none")
    => /\ call.err = "none"
       /\ call.result = dereference(pre, call.it).result
       /\ _size = size(pre) - 1
       /\ Now = RefRemove(Before, PointedIndex)


\* The index insert(x, it) is to put x at: that of the element a forward
\* iterator points to, one past that of the element a reverse one points to.
InsertionIndex ==
    IF call.it.reverse THEN size(pre) - call.it.position ELSE call.it.position

\* C32: insert(x, it) with an iterator over this buffer at a position p in
\* 0..count puts x before the element a forward iterator points to and after
\* (in buffer order) the element a reverse iterator points to, the other
\* elements staying in order around it; the position the iterator stores is
\* the same after the call, and dereferencing it then yields x.
C32_InsertAtIterator ==
    (call.op = "insertAt" /\ call.it.owner = "this" /\ call.it.position <= size(pre))
    => /\ call.err = "none"
       /\ Now = RefInsert(Before, call.element, InsertionIndex)
       /\ dereference(This, call.it) = Returns(This, call.element)


\* n successive pop() calls (popLast() calls when last) from buffer b: the
\* buffer they leave and what they returned, in call order.
RECURSIVE PopTimes(_, _, _)
PopTimes(b, n, last) ==
    IF n = 0 THEN [buf |-> b, results |-> <<>>]
    ELSE LET popped == IF last THEN popLast(b) ELSE pop(b)
             rest == PopTimes(popped.buf, n - 1, last)
         IN  [buf |-> rest.buf, results |-> <<popped.result>> \o rest.results]

\* C33: popSome(target, n) with n <= count leaves what n successive pop()
\* calls leave and popSomeLast(target, n) what n successive popLast() calls
\* leave, target[0], target[1], ... holding the results in call order; with
\* n > count either call fails with the out-of-range error and removes
\* nothing.
C33_PopSome ==
    /\ (call.op \in {"popSome", "popSomeLast"} /\ call.index <= size(pre))
       => /\ call.err = "none"
          /\ This = PopTimes(pre, call.index, call.op = "popSomeLast").buf
          /\ call.target = PopTimes(pre, call.index, call.op = "popSomeLast").results
    /\ (call.op \in {"popSome", "popSomeLast"} /\ call.index > size(pre))
       => /\ call.err = "length_error"
          /\ This = pre

\* popSomeLast takes two or more elements, not all alike, but not all there
\* are, off a buffer whose elements wrap around the end of the array.
C33_Witness ==
    /\ call.op = "popSomeLast"
    /\ call.index >= 2
    /\ call.index < size(pre)
    /\ pre.position + pre.size > pre.capacity
    /\ call.target[1] # call.target[2]


\* C34: reverseSliceToArray(target, from, until) with from <= until <= count
\* writes the elements at the indices [from, until) in reverse order, the
\* reverse of what sliceToArray(target, from, until) writes, so target[i] is
\* at(until - 1 - i), for every from and until; the buffer is unchanged.
C34_ReverseSlice ==
    (call.op = "reverseSliceToArray" /\ call.from <= call.index /\ call.index <= size(pre))
    => /\ call.err = "none"
       /\ This = pre
       /\ call.target = Reverse(sliceToArrayInto(pre, call.from, call.index).target)
       /\ \A i \in 0..(call.index - call.from - 1) :
              call.target[i + 1] = at(pre, call.index - 1 - i)


\* C35: a request for zero elements -- skip(0), skipLast(0), popSome(target, 0),
\* popSomeLast(target, 0), sliceToArray(target, 0, 0),
\* reverseSliceToArray(target, 0, 0), addAll(array, 0) -- raises no error and
\* leaves the count, the start position, the capacity and the contents as they
\* were, on an empty buffer and on one of capacity zero as on any other.
ZeroRequest ==
    \/ call.op \in {"skip", "skipLast", "popSome", "popSomeLast"} /\ call.index = 0
    \/ call.op \in {"sliceToArray", "reverseSliceToArray"}
           /\ call.from = 0 /\ call.index = 0
    \/ call.op = "addAll" /\ call.elements = <<>>

C35_ZeroRequests ==
    ZeroRequest => call.err = "none" /\ This = pre

\* popSomeLast is asked for nothing on a buffer of capacity zero.
C35_Witness ==
    /\ call.op = "popSomeLast"
    /\ call.index = 0
    /\ pre.capacity = 0


\* C36: iterators compare on position and buffer identity alone: a == b iff
\* both have the same position and the same buffer (and a != b otherwise); for
\* two iterators of one direction over one buffer exactly one of a < b,
\* a == b, a > b holds, and a <= b iff (a < b or a == b), a >= b iff (a > b or
\* a == b); a - b is the signed difference of the positions, also when the
\* buffers differ, and no error is raised; (a + k) - k == a.
C36_IteratorComparisons ==
    /\ call.op = "compare"
        => /\ call.err = "none"
           /\ call.target[1] = 1
                <=> (iterator.position = call.it.position /\ iterator.owner = call.it.owner)
           /\ call.target[2] = 1 - call.target[1]
           /\ iterator.owner = call.it.owner
                => /\ call.target[3] + call.target[1] + call.target[4] = 1
                   /\ call.target[5] = 1 <=> (call.target[3] = 1 \/ call.target[1] = 1)
                   /\ call.target[6] = 1 <=> (call.target[4] = 1 \/ call.target[1] = 1)
           /\ call.result = PtrDiffT(iterator.position) - PtrDiffT(call.it.position)
    /\ call.op = "+-"
        => /\ call.err = "none"
           /\ call.it = iterator
           /\ iteratorEquals(call.it, iterator)

\* An iterator moved before the first element is compared with one of another
\* buffer at the same position: they are not equal, and their difference is 0.
C36_Witness ==
    /\ call.op = "compare"
    /\ PtrDiffT(iterator.position) < 0
    /\ call.it.owner = "other"
    /\ call.it.position = iterator.position
    /\ call.target[1] = 0
    /\ call.result = 0


\* C37: in the virtual-dispatch variant a reverse iterator at position p,
\* 0 <= p < count, dereferences to at(count - p - 1), so rbegin() (p = 0)
\* yields the last element of a buffer that is not empty.
C37_VirtualReverseDereference ==
    (call.op = "virtual*" /\ call.it.reverse /\ call.it.position < size(pre))
    => /\ call.err = "none"
       /\ call.result = at(pre, size(pre) - call.it.position - 1)


\* C38: every slot that add, addFirst, addAll, insert, removeAt and the
\* copy-outs read or write, the bulk copies of the shift helpers and of the
\* slice copies included, lies within 0..capacity-1 of the block it addresses.
C38_SlotsInRange ==
    \A slot \in AddressedBy(call, pre) : slot[2] \in 0..(slot[1] - 1)


\* C39: add, addFirst and insert handed a reference to an element of the
\* buffer itself store the value that element held before the call: at the
\* back, at the front, at the index asked for, whether the call shifts the
\* elements in place or grows the array and releases the old block.
C39_OwnElementStored ==
    /\ call.op = "add(own)" => at(This, size(pre)) = at(pre, call.from)
    /\ call.op = "addFirst(own)" => at(This, 0) = at(pre, call.from)
    /\ (call.op = "insert(own)" /\ call.err = "none")
        => at(This, call.index) = at(pre, call.from)

====
